---- MODULE Spec2Model ----
(***************************************************************************)
(* Lifecycle of GrD3DCommandList (src/gpu/d3d/GrD3DCommandList.cpp): the   *)
(* wrapper that owns one ID3D12CommandAllocator and one                    *)
(* ID3D12GraphicsCommandList, its close / submit / reset operations, the   *)
(* two factories GrD3DDirectCommandList::Make and                          *)
(* GrD3DCopyCommandList::Make, and the native objects they drive.          *)
(***************************************************************************)
EXTENDS Integers, Sequences, FiniteSets, TLC

\* Bounds of the model.
MaxWrappers == 2    \* wrappers made from the device
MaxOps == 6         \* Make / record / close / submit / reset calls in one run

Wrappers == 1..MaxWrappers
ObjIds == 1..MaxWrappers

\* A null gr_cp<>.
Null == 0

D3D12_COMMAND_LIST_TYPE_DIRECT == "DIRECT"
D3D12_COMMAND_LIST_TYPE_COPY == "COPY"

VARIABLES
    SK_DEBUG,       \* TRUE in a build that compiles SkDEBUGCODE / SkASSERT in
    status,         \* "running", "aborted" (SkASSERT fired) or "crashed"
    wrapper,        \* w -> [kind, fAllocator, fCommandList]
    alloc,          \* allocator id -> [type, cmds, resets]
    list,           \* command-list id -> [type, open, alloc]
    nextAlloc,      \* next allocator the device creates
    nextList,       \* next command list the device creates
    queue,          \* batches handed to the queue and not yet completed
    submitted,      \* the wrappers submit was called on
    nops,           \* Make / record / close / submit / reset calls so far
    op              \* the last operation, with what it saw before it ran

vars == <<SK_DEBUG, status, wrapper, alloc, list, nextAlloc, nextList, queue,
          submitted, nops, op>>

NoWrapper == [kind |-> "none", fAllocator |-> Null, fCommandList |-> Null]
NoAlloc == [type |-> "none", cmds |-> 0, resets |-> 0]
NoList == [type |-> "none", open |-> FALSE, alloc |-> Null]

NoOp ==
    [name |-> "init", w |-> Null, fault |-> FALSE, failedAt |-> "none",
     result |-> "returned", wasOpen |-> FALSE, inFlight |-> FALSE]

Made(w) == wrapper[w].kind # "none"

\* GPU work recorded from allocator a is submitted and not yet completed.
InFlight(a) == \E i \in 1..Len(queue) : queue[i].alloc = a

\* What an operation on wrapper w saw before it ran.
Before(name, w, fault) ==
    LET a == wrapper[w].fAllocator
        l == wrapper[w].fCommandList
    IN  [name |-> name, w |-> w, fault |-> fault, failedAt |-> "none",
         result |-> "returned",
         wasOpen |-> (l # Null /\ list[l].open),
         inFlight |-> (a # Null /\ InFlight(a))]

\* Mutant: the assertion is compiled out of every build.
SkASSERT_off(cond) == "running"

\* Mutant: the assertion is written on the failure, SkASSERT(FAILED(hr)).
SkASSERT_inverted(cond) == IF SK_DEBUG /\ cond THEN "aborted" ELSE "running"

\* SkASSERT(cond): in a build without SK_DEBUG the check is compiled out with
\* the SkDEBUGCODE declaration of hr; with it, a false condition aborts.
SkASSERT(cond) == IF SK_DEBUG /\ ~cond THEN "aborted" ELSE "running"

\* How an operation whose (last) assertion checked cond ends.
Outcome(cond) == IF SkASSERT(cond) = "aborted" THEN "aborted" ELSE "returned"

Init ==
    /\ SK_DEBUG \in BOOLEAN
    /\ status = "running"
    /\ wrapper = [w \in Wrappers |-> NoWrapper]
    /\ alloc = [a \in ObjIds |-> NoAlloc]
    /\ list = [l \in ObjIds |-> NoList]
    /\ nextAlloc = 1
    /\ nextList = 1
    /\ queue = <<>>
    /\ submitted = {}
    /\ nops = 0
    /\ op = NoOp

----------------------------------------------------------------------------
\* The native layer, as the wrapper consumes it.

\* ID3D12Device::CreateCommandAllocator: a new allocator object on success.
CreateCommandAllocator(fault) == IF fault THEN Null ELSE nextAlloc

\* ID3D12Device::CreateCommandList: a new list, open and bound to allocator a;
\* it fails without an allocator.
CreateCommandList(a, fault) == IF fault \/ a = Null THEN Null ELSE nextList

\* ID3D12GraphicsCommandList::Close: fails on a list that is not recording.
NativeCloseOK(l, fault) == ~fault /\ list[l].open

\* ID3D12GraphicsCommandList::Reset: fails on a list that is not closed.
NativeListResetOK(l, fault) == ~fault /\ ~list[l].open

\* ID3D12CommandAllocator::Reset: takes the allocator in any list state.
NativeAllocatorResetOK(a, fault) == ~fault

\* ID3D12CommandQueue::ExecuteCommandLists returns nothing. A closed list is
\* accepted; what the queue does with a list that is still recording is not
\* defined, so it either drops the batch or takes it (accepted).
ExecuteCommandLists(q, l, accepted) ==
    IF ~list[l].open \/ accepted
    THEN Append(q, [list |-> l, alloc |-> list[l].alloc,
                    type |-> list[l].type, closed |-> ~list[l].open])
    ELSE q

----------------------------------------------------------------------------
\* The wrapper.

\* The slot the next wrapper made from the device takes.
NewWrapper == CHOOSE w \in Wrappers : ~Made(w) /\ \A v \in 1..(w - 1) : Made(v)

\* Mutant: Make keeps the first allocator it created and hands it to every
\* wrapper.
MakeAllocator_cached(faultA) ==
    IF nextAlloc > 1 THEN 1 ELSE CreateCommandAllocator(faultA)

\* The allocator a Make creates: its own, from the device.
MakeAllocator(faultA) == CreateCommandAllocator(faultA)

\* The two factories: allocator of the general kind, list of listType.
MakeWith(kind, listType, faultA, faultL) ==
    /\ status = "running"
    /\ nops < MaxOps
    /\ nops' = nops + 1
    /\ \E w \in Wrappers : ~Made(w)
    /\ LET w == NewWrapper
           a == MakeAllocator(faultA)
           okA == a # Null
           l == IF SkASSERT(okA) = "aborted" THEN Null
                ELSE CreateCommandList(a, faultL)
           okL == l # Null
           ok == okA /\ okL
       IN  /\ alloc' = IF okA
                       THEN [alloc EXCEPT ![a] =
                               [type |-> D3D12_COMMAND_LIST_TYPE_DIRECT,
                                cmds |-> 0, resets |-> 0]]
                       ELSE alloc
           /\ nextAlloc' = IF okA THEN nextAlloc + 1 ELSE nextAlloc
           /\ list' = IF okL
                      THEN [list EXCEPT ![l] =
                              [type |-> listType, open |-> TRUE, alloc |-> a]]
                      ELSE list
           /\ nextList' = IF okL THEN nextList + 1 ELSE nextList
           /\ status' = SkASSERT(ok)
           /\ wrapper' = IF SkASSERT(ok) = "aborted" THEN wrapper
                         ELSE [wrapper EXCEPT ![w] =
                                 [kind |-> kind, fAllocator |-> a,
                                  fCommandList |-> l]]
           /\ op' = [NoOp EXCEPT
                        !.name = "Make", !.w = w,
                        !.fault = (faultA \/ faultL),
                        !.failedAt = IF ~okA THEN "allocator"
                                     ELSE IF ~okL THEN "list" ELSE "none",
                        !.result = Outcome(ok)]
    /\ UNCHANGED <<SK_DEBUG, queue, submitted>>

\* GrD3DDirectCommandList::Make
GrD3DDirectCommandList_Make(faultA, faultL) ==
    MakeWith("Direct", D3D12_COMMAND_LIST_TYPE_DIRECT, faultA, faultL)

\* Mutant: the Copy factory, copied from the Direct one, still asks for a
\* list of the general type.
GrD3DCopyCommandList_Make_direct(faultA, faultL) ==
    MakeWith("Copy", D3D12_COMMAND_LIST_TYPE_DIRECT, faultA, faultL)

\* GrD3DCopyCommandList::Make
GrD3DCopyCommandList_Make(faultA, faultL) ==
    MakeWith("Copy", D3D12_COMMAND_LIST_TYPE_COPY, faultA, faultL)

\* A call through a null fCommandList or fAllocator (a wrapper a build
\* without SK_DEBUG returned from a failed Make) is undefined: the process
\* crashes, or the call does nothing.
NullCall(name, w) ==
    /\ \E crash \in BOOLEAN :
          /\ status' = IF crash THEN "crashed" ELSE "running"
          /\ op' = [Before(name, w, FALSE) EXCEPT
                       !.result = IF crash THEN "crashed" ELSE "returned",
                       !.failedAt = "null"]
    /\ UNCHANGED <<SK_DEBUG, wrapper, alloc, list, nextAlloc, nextList, queue,
                   submitted>>

\* The caller records one command into the open list of wrapper w; the
\* command is stored in the list's allocator.
record(w) ==
    /\ status = "running"
    /\ nops < MaxOps
    /\ nops' = nops + 1
    /\ Made(w)
    /\ wrapper[w].fCommandList # Null
    /\ LET l == wrapper[w].fCommandList
           a == list[l].alloc
       IN  /\ list[l].open
           /\ alloc' = [alloc EXCEPT ![a].cmds = @ + 1]
    /\ op' = Before("record", w, FALSE)
    /\ UNCHANGED <<SK_DEBUG, status, wrapper, list, nextAlloc, nextList, queue,
                   submitted>>

\* Mutant: the operations wait until the work submitted from the wrapper's
\* allocator has completed.
CanRun_fenced(w) == Made(w) /\ ~InFlight(wrapper[w].fAllocator)

\* close, submit and reset are straight-line code on the wrapper's two
\* objects: they take no lock and wait on no fence, so a call on a made
\* wrapper runs at once.
CanRun(w) == Made(w)

\* Mutant: close also lets go of the allocator the list records into.
ClosedList_unbound(l, ok) ==
    IF ok THEN [list EXCEPT ![l].open = FALSE, ![l].alloc = Null] ELSE list

\* The list of wrapper w after fCommandList->Close().
ClosedList(l, ok) == IF ok THEN [list EXCEPT ![l].open = FALSE] ELSE list

\* Mutant: close drops the result of fCommandList->Close().
CloseSucceeded_ignored(w, fault) == TRUE

\* SUCCEEDED(hr) in close: hr is the result of fCommandList->Close().
CloseSucceeded(w, fault) == NativeCloseOK(wrapper[w].fCommandList, fault)

\* GrD3DCommandList::close
close(w, fault) ==
    /\ status = "running"
    /\ nops < MaxOps
    /\ nops' = nops + 1
    /\ CanRun(w)
    /\ \/ /\ wrapper[w].fCommandList = Null
          /\ ~fault
          /\ NullCall("close", w)
       \/ /\ wrapper[w].fCommandList # Null
          /\ LET l == wrapper[w].fCommandList
                 ok == CloseSucceeded(w, fault)
             IN  /\ list' = ClosedList(l, ok)
                 /\ status' = SkASSERT(ok)
                 /\ op' = [Before("close", w, fault) EXCEPT
                              !.result = Outcome(ok),
                              !.failedAt = IF ok THEN "none" ELSE "close"]
          /\ UNCHANGED <<SK_DEBUG, wrapper, alloc, nextAlloc, nextList, queue,
                         submitted>>

\* Mutant: submit resets the list on an allocator that is not the wrapper's
\* own when the device has created another one.
ReopenedList_otherAllocator(l, a, ok) ==
    IF ok
    THEN [list EXCEPT ![l].open = TRUE,
                      ![l].alloc = IF a = 1 THEN nextAlloc - 1 ELSE 1]
    ELSE list

\* Mutant: submit hands the list off and leaves it closed.
ReopenedList_skipped(l, a, ok) == list

\* The list of wrapper w after fCommandList->Reset(fAllocator.Get(), nullptr):
\* open again, recording into allocator a.
ReopenedList(l, a, ok) ==
    IF ok THEN [list EXCEPT ![l].open = TRUE, ![l].alloc = a] ELSE list

\* Mutant: submit also calls fAllocator->Reset().
AllocatorsAfterSubmit_reset(a, ok) ==
    IF ok THEN [alloc EXCEPT ![a].cmds = 0, ![a].resets = @ + 1] ELSE alloc

\* The allocators after submit: submit resets the list, not the allocator.
AllocatorsAfterSubmit(a, ok) == alloc

\* Mutant: submit resets the list first and hands it off re-opened.
HandedOff_afterReset(w, accepted) ==
    LET l == wrapper[w].fCommandList
    IN  Append(queue, [list |-> l, alloc |-> list[l].alloc,
                       type |-> list[l].type, closed |-> FALSE])

\* The queue after queue->ExecuteCommandLists(1, ppCommandLists), where
\* ppCommandLists holds fCommandList alone, as it is on entry to submit.
HandedOff(w, accepted) ==
    ExecuteCommandLists(queue, wrapper[w].fCommandList, accepted)

\* Mutant: submit calls fAllocator->Reset() where it resets the list.
SubmitSucceeded_allocatorReset(w, fault) ==
    NativeAllocatorResetOK(wrapper[w].fAllocator, fault)

\* SUCCEEDED(hr) in submit: hr is the result of
\* fCommandList->Reset(fAllocator.Get(), nullptr).
SubmitSucceeded(w, fault) == NativeListResetOK(wrapper[w].fCommandList, fault)

\* GrD3DCommandList::submit
submit(w, fault, accepted) ==
    /\ status = "running"
    /\ nops < MaxOps
    /\ nops' = nops + 1
    /\ CanRun(w)
    /\ \/ /\ wrapper[w].fCommandList = Null
          /\ ~fault /\ ~accepted
          /\ NullCall("submit", w)
       \/ /\ wrapper[w].fCommandList # Null
          /\ list[wrapper[w].fCommandList].open \/ ~accepted
          /\ LET l == wrapper[w].fCommandList
                 a == wrapper[w].fAllocator
                 ok == SubmitSucceeded(w, fault)
             IN  /\ queue' = HandedOff(w, accepted)
                 /\ list' = ReopenedList(l, a, ok)
                 /\ alloc' = AllocatorsAfterSubmit(a, ok)
                 /\ status' = SkASSERT(ok)
                 /\ op' = [Before("submit", w, fault) EXCEPT
                              !.result = Outcome(ok),
                              !.failedAt = IF ok THEN "none" ELSE "listReset"]
          /\ submitted' = submitted \cup {w}
          /\ UNCHANGED <<SK_DEBUG, wrapper, nextAlloc, nextList>>

\* The allocators after fAllocator->Reset(): the storage of allocator a is
\* reclaimed.
ResetAllocator(a, ok) ==
    IF ok THEN [alloc EXCEPT ![a].cmds = 0, ![a].resets = @ + 1] ELSE alloc

\* Mutant: reset() also re-opens the command list.
ListsAfterReset_reopened(l) ==
    IF l # Null THEN [list EXCEPT ![l].open = TRUE] ELSE list

\* The lists after reset(): reset does not touch the command list.
ListsAfterReset(l) == list

\* Mutant: reset() calls fCommandList->Reset(fAllocator.Get(), nullptr).
ResetSucceeded_listReset(w, fault) ==
    NativeListResetOK(wrapper[w].fCommandList, fault)

\* SUCCEEDED(hr) in reset: hr is the result of fAllocator->Reset().
ResetSucceeded(w, fault) == NativeAllocatorResetOK(wrapper[w].fAllocator, fault)

\* GrD3DCommandList::reset
reset(w, fault) ==
    /\ status = "running"
    /\ nops < MaxOps
    /\ nops' = nops + 1
    /\ CanRun(w)
    /\ \/ /\ wrapper[w].fAllocator = Null
          /\ ~fault
          /\ NullCall("reset", w)
       \/ /\ wrapper[w].fAllocator # Null
          /\ LET a == wrapper[w].fAllocator
                 ok == ResetSucceeded(w, fault)
             IN  /\ alloc' = ResetAllocator(a, ok)
                 /\ list' = ListsAfterReset(wrapper[w].fCommandList)
                 /\ status' = SkASSERT(ok)
                 /\ op' = [Before("reset", w, fault) EXCEPT
                              !.result = Outcome(ok),
                              !.failedAt = IF ok THEN "none" ELSE "reset"]
          /\ UNCHANGED <<SK_DEBUG, wrapper, nextAlloc, nextList, queue,
                         submitted>>

\* Mutant: the GPU takes the batch handed over last.
GpuComplete_lifo ==
    /\ status = "running"
    /\ queue # <<>>
    /\ queue' = SubSeq(queue, 1, Len(queue) - 1)
    /\ op' = [NoOp EXCEPT !.name = "gpu"]
    /\ UNCHANGED <<SK_DEBUG, status, wrapper, alloc, list, nextAlloc, nextList,
                   submitted, nops>>

\* The GPU finishes the oldest batch on the queue.
GpuComplete ==
    /\ status = "running"
    /\ queue # <<>>
    /\ queue' = Tail(queue)
    /\ op' = [NoOp EXCEPT !.name = "gpu"]
    /\ UNCHANGED <<SK_DEBUG, status, wrapper, alloc, list, nextAlloc, nextList,
                   submitted, nops>>

Next ==
    \/ \E fA, fL \in BOOLEAN : GrD3DDirectCommandList_Make(fA, fL)
    \/ \E fA, fL \in BOOLEAN : GrD3DCopyCommandList_Make(fA, fL)
    \/ \E w \in Wrappers : record(w)
    \/ \E w \in Wrappers, fault \in BOOLEAN : close(w, fault)
    \/ \E w \in Wrappers, fault, accepted \in BOOLEAN : submit(w, fault, accepted)
    \/ \E w \in Wrappers, fault \in BOOLEAN : reset(w, fault)
    \/ GpuComplete

Spec == Init /\ [][Next]_vars

----------------------------------------------------------------------------
\* Properties.

ListOf(w) == wrapper[w].fCommandList
AllocOf(w) == wrapper[w].fAllocator

\* The last operation was name, on a wrapper that has its native objects,
\* and no native call of it was made to fail from outside.
Ran(name) ==
    /\ op.name = name
    /\ ~op.fault
    /\ ListOf(op.w) # Null

\* C1: close() on an open list followed by submit(q), repeated any number of
\* times from a freshly made Direct or Copy wrapper, never reaches the
\* fatal-assertion state, whatever was recorded: a close() of an open list
\* returns with the list closed, a submit(q) of a closed list returns with
\* the list open, and the process is aborted only after a native call was
\* made to fail or after a close() of a closed list or a submit(q) of an
\* open one.
C1_CloseSubmitLegal ==
    /\ status = "aborted" =>
          \/ op.fault
          \/ op.name = "close" /\ ~op.wasOpen
          \/ op.name = "submit" /\ op.wasOpen
    /\ Ran("close") /\ op.wasOpen =>
          status = "running" /\ ~list[ListOf(op.w)].open
    /\ Ran("submit") /\ ~op.wasOpen =>
          status = "running" /\ list[ListOf(op.w)].open

\* Two close/submit cycles with nothing recorded ran on one wrapper.
C1_Witness ==
    /\ Ran("submit") /\ ~op.wasOpen /\ op.result = "returned"
    /\ alloc[AllocOf(op.w)].cmds = 0
    /\ alloc[AllocOf(op.w)].resets = 0
    /\ Len(queue) = 2
    /\ \A i \in 1..2 : queue[i].list = ListOf(op.w) /\ queue[i].closed

\* C2: when submit(q) returns from a call on a closed list, the list is
\* open (Recording) again, bound to the wrapper's allocator, without any
\* reset() call: a close() of it would be accepted by the native layer and
\* the caller can record into it.
C2_SubmitReopens ==
    Ran("submit") /\ ~op.wasOpen =>
        /\ op.result = "returned"
        /\ list[ListOf(op.w)].open
        /\ list[ListOf(op.w)].alloc = AllocOf(op.w)
        /\ CloseSucceeded(op.w, FALSE)
        /\ nops < MaxOps => ENABLED record(op.w)

\* submit(q) returned from a call on a closed list of a wrapper that was
\* never reset.
C2_Witness ==
    /\ Ran("submit") /\ ~op.wasOpen /\ op.result = "returned"
    /\ alloc[AllocOf(op.w)].resets = 0
    /\ nops < MaxOps

\* C3 as claimed: every submit(q) that returns has reset the allocator once
\* more.
C3_SubmitResetsAllocator ==
    [][\A w \in Wrappers :
          (op'.name = "submit" /\ op'.w = w /\ op'.result = "returned"
              /\ AllocOf(w) # Null)
          => alloc'[AllocOf(w)].resets = alloc[AllocOf(w)].resets + 1]_vars

\* C3: submit(q) hands the list to the queue and resets the command list,
\* not the allocator: no allocator is reset and none loses its recorded
\* commands in a submit(q), and a submit(q) of a closed list appends the
\* list to the queue.
C3_SubmitKeepsAllocator ==
    [][op'.name = "submit" =>
          /\ alloc' = alloc
          /\ (ListOf(op'.w) # Null /\ ~op'.wasOpen) =>
                /\ Len(queue') = Len(queue) + 1
                /\ queue'[Len(queue')].list = ListOf(op'.w)]_vars

\* submit(q) returned on a closed list whose allocator holds a command.
C3_Witness ==
    /\ Ran("submit") /\ ~op.wasOpen /\ op.result = "returned"
    /\ alloc[AllocOf(op.w)].cmds > 0
    /\ alloc[AllocOf(op.w)].resets = 0

\* C4 as claimed: no allocator is reset while work recorded from it is
\* pending on the queue.
C4_NeverResetInFlight ==
    [][\A a \in ObjIds :
          alloc'[a].resets > alloc[a].resets => ~InFlight(a)]_vars

\* C4: the wrapper does not track completion. An allocator is reset while
\* work recorded from it is pending only by a reset() call on its own
\* wrapper made between a submit(q) and the completion of that work; Make,
\* record, close, submit and the completion of work never reset it.
C4_OnlyResetResetsInFlight ==
    [][\A a \in ObjIds :
          (alloc'[a].resets > alloc[a].resets /\ InFlight(a)) =>
              /\ op'.name = "reset"
              /\ AllocOf(op'.w) = a
              /\ op'.inFlight]_vars

\* reset() reset the allocator of a wrapper whose submitted work was still
\* pending.
C4_Witness ==
    /\ Ran("reset") /\ op.inFlight /\ op.result = "returned"
    /\ alloc[AllocOf(op.w)].resets = 1
    /\ InFlight(AllocOf(op.w))

\* The last operation was reset() on a wrapper that was never submitted.
ResetNeverSubmitted == Ran("reset") /\ op.w \notin submitted

\* C5 as claimed: reset() on a wrapper that was never submitted leaves the
\* list open and the allocator empty, whether the list was open or closed.
C5_ResetReopens ==
    ResetNeverSubmitted =>
        /\ list[ListOf(op.w)].open
        /\ alloc[AllocOf(op.w)].cmds = 0

\* C5: reset() on a wrapper that was never submitted returns, empties the
\* allocator as in a freshly made wrapper, and leaves the list in the state
\* it was in: open if it was open, still closed if it was closed.
C5_ResetKeepsListState ==
    ResetNeverSubmitted =>
        /\ op.result = "returned"
        /\ list[ListOf(op.w)].open = op.wasOpen
        /\ list[ListOf(op.w)].alloc = AllocOf(op.w)
        /\ alloc[AllocOf(op.w)].cmds = 0
        /\ alloc[AllocOf(op.w)].type = D3D12_COMMAND_LIST_TYPE_DIRECT

\* reset() ran on a never submitted wrapper whose list was closed.
C5_Witness ==
    /\ ResetNeverSubmitted /\ ~op.wasOpen
    /\ ~list[ListOf(op.w)].open

\* C6: reset() on a freshly made Copy or Direct wrapper, its list still
\* open and never closed or submitted, returns without reaching the
\* fatal-assertion state.
C6_ResetFreshNoAbort ==
    (ResetNeverSubmitted /\ op.wasOpen) =>
        status = "running" /\ op.result = "returned"

\* In a build with assertions, Copy Make and then reset() were the only
\* two calls made.
C6_Witness ==
    /\ ResetNeverSubmitted /\ op.wasOpen
    /\ SK_DEBUG
    /\ wrapper[op.w].kind = "Copy"
    /\ nops = 2
    /\ status = "running"

\* The native calls whose failure the claim names; "listReset" is the list
\* Reset of submit.
CheckedCalls == {"allocator", "list", "close", "reset"}

NumMade == Cardinality({w \in Wrappers : Made(w)})

\* C7 as claimed: a native failure at allocator creation, list creation,
\* close or reset always ends the operation in the fatal state, and a Make
\* whose allocation failed returns no wrapper.
C7_FailureIsFatal ==
    op.failedAt \in CheckedCalls =>
        /\ status = "aborted"
        /\ op.name = "Make" => ~Made(op.w)

\* C7: in a build with SK_DEBUG, a native failure at allocator creation,
\* list creation, close, reset or the list Reset of submit ends the
\* operation in the fatal state: a Make whose allocator creation failed
\* creates no list, a Make whose allocation failed returns no wrapper, and
\* no operation runs once the process is aborted. (In a build without
\* SK_DEBUG the result is not looked at.)
C7_FailureIsFatalInDebug ==
    /\ (SK_DEBUG /\ op.failedAt \in CheckedCalls \cup {"listReset"}) =>
          /\ status = "aborted"
          /\ op.result = "aborted"
          /\ op.name = "Make" =>
                /\ ~Made(op.w)
                /\ nextList = NumMade + 1
                /\ op.failedAt = "allocator" => nextAlloc = NumMade + 1
    /\ status = "aborted" => SK_DEBUG /\ ~ENABLED Next

\* A build with SK_DEBUG aborted in a Make whose list creation failed after
\* the allocator was created.
C7_Witness ==
    /\ SK_DEBUG
    /\ op.name = "Make" /\ op.failedAt = "list"
    /\ status = "aborted"
    /\ nextAlloc = NumMade + 2

\* C8: no two wrappers made from the device own the same allocator or the
\* same command list, and the objects a wrapper owns were created by the
\* device for it.
C8_ExclusiveOwnership ==
    \A w1, w2 \in Wrappers :
        (Made(w1) /\ Made(w2) /\ w1 # w2) =>
            /\ AllocOf(w1) # Null => AllocOf(w1) # AllocOf(w2)
            /\ ListOf(w1) # Null => ListOf(w1) # ListOf(w2)
            /\ AllocOf(w1) < nextAlloc /\ ListOf(w1) < nextList

\* A Direct and a Copy wrapper made from the device, both with their
\* native objects.
C8_Witness ==
    \E w1, w2 \in Wrappers :
        /\ wrapper[w1].kind = "Direct" /\ wrapper[w2].kind = "Copy"
        /\ AllocOf(w1) # Null /\ AllocOf(w2) # Null
        /\ ListOf(w1) # Null /\ ListOf(w2) # Null

\* C9 as claimed: submit(q) never hands an open list to the queue.
C9_NeverHandsOffOpenList == ~(op.name = "submit" /\ op.wasOpen)

\* C9: submit(q) does not look at the list's state before the hand-off; an
\* open list is handed off when submit(q) is called without a close()
\* before it. The list Reset of the same call then fails and leaves the
\* list as it was, so in a build with SK_DEBUG that call ends in the fatal
\* state: there every submit(q) that returns handed off a closed list and
\* the queue of a running process holds closed lists only.
C9_OpenHandOffFails ==
    /\ (op.name = "submit" /\ op.wasOpen) =>
          /\ op.failedAt = "listReset"
          /\ list[ListOf(op.w)].open
          /\ SK_DEBUG => op.result = "aborted"
    /\ (SK_DEBUG /\ status = "running") =>
          \A i \in 1..Len(queue) : queue[i].closed

\* submit(q) was called on an open list, which the queue took.
C9_Witness ==
    /\ op.name = "submit" /\ op.wasOpen /\ ~op.fault
    /\ SK_DEBUG
    /\ queue # <<>> /\ ~queue[Len(queue)].closed

\* close() was called on a closed list, or submit(q) on an open one.
Misuse ==
    \/ op.name = "close" /\ ~op.wasOpen /\ ListOf(op.w) # Null
    \/ op.name = "submit" /\ op.wasOpen

\* C10 as claimed: close() on a closed list and submit(q) on an open list
\* end in the fatal-assertion state.
C10_MisuseIsFatal == Misuse => status = "aborted"

\* C10: close() on a closed list and submit(q) on an open list make the
\* native call report failure and leave the list as it was; in a build with
\* SK_DEBUG the wrapper then enters the fatal-assertion state, in a build
\* without it the call returns as if it had succeeded.
C10_MisuseIsFatalInDebug ==
    Misuse =>
        /\ op.failedAt \in {"close", "listReset"}
        /\ list[ListOf(op.w)].open = op.wasOpen
        /\ SK_DEBUG => status = "aborted" /\ op.result = "aborted"
        /\ ~SK_DEBUG => status = "running" /\ op.result = "returned"

\* In a build with SK_DEBUG, close() was called on a closed list with no
\* outside failure.
C10_Witness ==
    /\ SK_DEBUG /\ ~op.fault
    /\ op.name = "close" /\ ~op.wasOpen /\ ListOf(op.w) # Null
    /\ status = "aborted"

\* Every command list a wrapper owns records into that wrapper's allocator,
\* and no other list does.
Paired ==
    \A w \in Wrappers :
        (Made(w) /\ ListOf(w) # Null) =>
            /\ list[ListOf(w)].alloc = AllocOf(w)
            /\ \A l \in ObjIds : list[l].alloc = AllocOf(w) => l = ListOf(w)

\* C11: the pairing of command list and allocator made in Make never
\* changes: in every state the list of a wrapper is bound to the wrapper's
\* own allocator and to no other, and no close, submit or reset changes
\* which allocator a list is bound to or which objects a wrapper owns.
C11_PairingFixed ==
    /\ []Paired
    /\ [][/\ \A l \in ObjIds :
                list[l].alloc # Null => list'[l].alloc = list[l].alloc
           /\ \A w \in Wrappers : Made(w) => wrapper'[w] = wrapper[w]]_vars

\* With two wrappers made, submit(q) re-opened the list of a wrapper whose
\* allocator had been reset before.
C11_Witness ==
    /\ Ran("submit") /\ ~op.wasOpen /\ op.result = "returned"
    /\ NumMade = 2
    /\ \A w \in Wrappers : AllocOf(w) # Null /\ ListOf(w) # Null
    /\ alloc[AllocOf(op.w)].resets = 1
    /\ list[ListOf(op.w)].open

\* The batch submit(q) on wrapper w hands to the queue: the wrapper's list
\* alone, as it is before the call.
BatchOf(w) ==
    LET l == ListOf(w)
    IN  [list |-> l, alloc |-> list[l].alloc, type |-> list[l].type,
         closed |-> ~list[l].open]

\* C12: a submit(q) call hands the queue one batch, holding the wrapper's
\* own command list and nothing else, and does so before it re-opens the
\* list: called on a closed list it appends exactly that one entry, the
\* entry shows the list closed, and the list is open when the call returns;
\* in no case does a call add more than that one entry.
C12_OneBatchBeforeReopen ==
    [][(op'.name = "submit" /\ ListOf(op'.w) # Null) =>
          /\ queue' \in {queue, Append(queue, BatchOf(op'.w))}
          /\ ~list[ListOf(op'.w)].open =>
                /\ queue' = Append(queue, BatchOf(op'.w))
                /\ BatchOf(op'.w).closed
                /\ op'.failedAt = "none" => list'[ListOf(op'.w)].open]_vars

\* submit(q) returned on a closed list: the queue holds that one batch,
\* taken closed, and the list is open again.
C12_Witness ==
    /\ Ran("submit") /\ ~op.wasOpen /\ op.result = "returned"
    /\ Len(queue) = 1
    /\ queue[1].list = ListOf(op.w) /\ queue[1].closed
    /\ list[ListOf(op.w)].open

\* The list type the factory of a wrapper of this kind asks for.
ListTypeOf(kind) ==
    IF kind = "Copy" THEN D3D12_COMMAND_LIST_TYPE_COPY
    ELSE D3D12_COMMAND_LIST_TYPE_DIRECT

\* C13: the engine type of a wrapper's native objects is the one its
\* factory gave them, in every state: a Direct wrapper has a general-typed
\* allocator and a general-typed list, a Copy wrapper a general-typed
\* allocator and a copy-typed list, whatever close, submit and reset calls
\* were made; the batches on the queue carry the type of their list.
C13_EngineTypeFixed ==
    /\ \A w \in Wrappers :
          Made(w) =>
            /\ wrapper[w].kind \in {"Direct", "Copy"}
            /\ AllocOf(w) # Null =>
                  alloc[AllocOf(w)].type = D3D12_COMMAND_LIST_TYPE_DIRECT
            /\ ListOf(w) # Null =>
                  list[ListOf(w)].type = ListTypeOf(wrapper[w].kind)
    /\ \A i \in 1..Len(queue) : queue[i].type = list[queue[i].list].type

\* A Copy wrapper went through close, submit and reset, next to a Direct
\* wrapper.
C13_Witness ==
    /\ Ran("reset") /\ op.result = "returned"
    /\ wrapper[op.w].kind = "Copy"
    /\ op.w \in submitted
    /\ list[ListOf(op.w)].type = D3D12_COMMAND_LIST_TYPE_COPY
    /\ \E v \in Wrappers : wrapper[v].kind = "Direct" /\ ListOf(v) # Null

\* C14: the queue executes batches in the order of the submit(q) calls: a
\* submit(q) puts its batch behind every batch handed over by a call that
\* returned before it, and the GPU takes the batch at the front, so the
\* work of a wrapper submitted first is executed before that of a wrapper
\* submitted after it.
C14_SubmissionOrder ==
    [][/\ op'.name = "submit" =>
            /\ Len(queue') >= Len(queue)
            /\ SubSeq(queue', 1, Len(queue)) = queue
       /\ op'.name = "gpu" =>
            /\ queue # <<>>
            /\ queue' = Tail(queue)]_vars

\* Two wrappers were submitted to the queue and the GPU has taken one
\* batch; the batch of the other wrapper is pending.
C14_Witness ==
    /\ op.name = "gpu"
    /\ submitted = Wrappers
    /\ Len(queue) = 1
    /\ \E w \in Wrappers :
          /\ queue[1].list = ListOf(w)
          /\ \E v \in Wrappers : ListOf(v) \notin {Null, ListOf(w)}

\* C15: no wrapper operation waits for the GPU: while the process runs,
\* close, submit and reset can each be called on a made wrapper and
\* complete, whether or not work submitted from it is still pending on the
\* queue; and when submit(q) returns from a call on a closed list, the
\* batch it handed over is still pending.
C15_NeverWaits ==
    /\ \A w \in Wrappers :
          (status = "running" /\ nops < MaxOps /\ Made(w)) =>
            /\ ENABLED close(w, FALSE)
            /\ ENABLED submit(w, FALSE, FALSE) \/ ENABLED submit(w, FALSE, TRUE)
            /\ ENABLED reset(w, FALSE)
    /\ (Ran("submit") /\ ~op.wasOpen /\ op.result = "returned") =>
          /\ queue # <<>>
          /\ queue[Len(queue)].list = ListOf(op.w)
          /\ InFlight(AllocOf(op.w))

\* close() returned on a wrapper whose earlier submitted work was still
\* pending, and further calls can be made.
C15_Witness ==
    /\ Ran("close") /\ op.inFlight /\ op.result = "returned"
    /\ InFlight(AllocOf(op.w))
    /\ status = "running" /\ nops < MaxOps

\* C16: close() changes nothing but the open/closed state of the wrapper's
\* own command list: allocators, queue, the other lists and the list's type
\* and allocator stay as they are; reset() leaves the queue as it is; and
\* of the calls on wrappers only submit(q) changes the queue: every change
\* of the queue is a submit(q), or the GPU finishing a batch, and every new
\* entry comes from a submit(q).
C16_Frame ==
    [][/\ op'.name = "close" =>
            /\ alloc' = alloc
            /\ queue' = queue
            /\ wrapper' = wrapper
            /\ \A l \in ObjIds :
                  /\ list'[l].type = list[l].type
                  /\ list'[l].alloc = list[l].alloc
                  /\ l # ListOf(op'.w) => list'[l] = list[l]
       /\ op'.name = "reset" => queue' = queue
       /\ queue' # queue => op'.name \in {"submit", "gpu"}
       /\ Len(queue') > Len(queue) => op'.name = "submit"]_vars

\* close() returned on an open list while the queue held a batch and the
\* allocator held a command.
C16_Witness ==
    /\ Ran("close") /\ op.wasOpen /\ op.result = "returned"
    /\ queue # <<>>
    /\ alloc[AllocOf(op.w)].cmds > 0
    /\ ~list[ListOf(op.w)].open
====
